---- MODULE Spec2Model ----
(***************************************************************************)
(* pyporter2 (src/Stemmer.py): the Porter2 English stemmer.                *)
(*                                                                         *)
(* A word is a sequence of characters, each character a string.  A byte    *)
(* string holds bytes: an ASCII byte is the one-character string of its    *)
(* letter, "\n" is the newline byte and "0xC3", "0xA9" are the two bytes   *)
(* of the UTF-8 encoding of the code point "U+00E9".  A unicode object     *)
(* holds code points: ASCII ones and "U+00E9".                             *)
(*                                                                         *)
(* The helper functions of the module are operators; Stemmer._stem is the  *)
(* state machine below, one action per statement of its body.              *)
(***************************************************************************)
EXTENDS Integers, Sequences, FiniteSets, TLC

(***************************************************************************)
(* Bounds of the model.                                                    *)
(***************************************************************************)
\* longest input enumerated over the whole alphabet
MaxLen == 3

(***************************************************************************)
(* Python string primitives.                                               *)
(***************************************************************************)
\* str.startswith
StartsWith(word, prefix) ==
    /\ Len(word) >= Len(prefix)
    /\ SubSeq(word, 1, Len(prefix)) = prefix

\* str.endswith
EndsWith(word, suffix) ==
    /\ Len(word) >= Len(suffix)
    /\ SubSeq(word, Len(word) - Len(suffix) + 1, Len(word)) = suffix

\* word[:-n] for n >= 1
DropLast(word, n) == SubSeq(word, 1, Len(word) - n)

\* word[n:]
DropFirst(word, n) == SubSeq(word, n + 1, Len(word))

\* the characters of a word
Chars(word) == {word[i] : i \in 1..Len(word)}

\* the class [aeiouy] of the regular expressions
Vowels == {"a", "e", "i", "o", "u", "y"}

\* what "." of a regular expression matches: anything but a newline
Dot(c) == c # "\n"

\* regexp.match without a match (None in place of a match object)
NoMatch == -1

\* the None a step helper returns when its suffix does not apply: a value
\* that is no word
None == <<"None">>

Min(S) == CHOOSE x \in S : \A y \in S : x <= y

(***************************************************************************)
(* Region calculator.                                                      *)
(***************************************************************************)
\* regexp.match(word, pos).start(1) for
\* regexp = [^aeiouy]*[aeiouy]+[^aeiouy](\w*), or NoMatch.
\* The classes are complementary, so the only candidate match takes the
\* whole run of non-vowels at pos, the whole run of vowels after it and one
\* non-vowel; group 1 may be empty.  Offsets are 0-based as in the source.
regexp_start1(word, pos) ==
    LET n == Len(word)
        \* 1-based index of the first vowel at or after pos, n+1 if none
        v == Min({j \in (pos + 1)..(n + 1) : j = n + 1 \/ word[j] \in Vowels})
        \* 1-based index of the first non-vowel after that run, n+1 if none
        c == Min({j \in v..(n + 1) : j = n + 1 \/ word[j] \notin Vowels})
    IN  IF v <= n /\ c <= n THEN c ELSE NoMatch

\* faulty variant of get_r1: the prefix overrides are missing
get_r1_no_override(word) ==
    LET match == regexp_start1(word, 0)
    IN  IF match # NoMatch THEN match ELSE Len(word)

\* faulty variant of get_r1: the offset after the vowel, not after the
\* non-vowel that follows it
get_r1_after_vowel(word) ==
    IF StartsWith(word, <<"g","e","n","e","r">>)
         \/ StartsWith(word, <<"a","r","s","e","n">>)
    THEN 5
    ELSE IF StartsWith(word, <<"c","o","m","m","u","n">>)
    THEN 6
    ELSE LET match == regexp_start1(word, 0)
         IN  IF match # NoMatch THEN match - 1 ELSE Len(word)

get_r1(word) ==
    IF StartsWith(word, <<"g","e","n","e","r">>)
         \/ StartsWith(word, <<"a","r","s","e","n">>)
    THEN 5
    ELSE IF StartsWith(word, <<"c","o","m","m","u","n">>)
    THEN 6
    ELSE LET match == regexp_start1(word, 0)
         IN  IF match # NoMatch THEN match ELSE Len(word)

\* faulty variant of get_r2: the scan starts at offset 0, not at R1
get_r2_from_start(word) ==
    LET match == regexp_start1(word, 0)
    IN  IF match # NoMatch THEN match ELSE Len(word)

\* faulty variant of get_r2: R1 of the remainder, prefix overrides included
get_r2_override_on_remainder(word) ==
    get_r1(word) + get_r1(SubSeq(word, get_r1(word) + 1, Len(word)))

get_r2(word) ==
    LET match == regexp_start1(word, get_r1(word))
    IN  IF match # NoMatch THEN match ELSE Len(word)

\* "$" matches at the end of the string and just before a final newline
AtDollar(word, k) ==
    \/ k = Len(word)
    \/ k = Len(word) - 1 /\ word[Len(word)] = "\n"

ends_with_short_syllable(word) ==
    \/ /\ Len(word) = 2
       /\ word[1] \in Vowels
       /\ word[2] \notin Vowels
    \/ \E k \in 1..(Len(word) - 2) :
          /\ \A i \in 1..(k - 1) : Dot(word[i])
          /\ word[k] \notin Vowels
          /\ word[k + 1] \in Vowels
          /\ word[k + 2] \notin (Vowels \cup {"w", "x", "Y"})
          /\ AtDollar(word, k + 2)

\* faulty variant of is_short_word: the test of R1 is missing
is_short_word_any_r1(word) == ends_with_short_syllable(word)

is_short_word(word) ==
    /\ ends_with_short_syllable(word)
    /\ get_r1(word) = Len(word)

(***************************************************************************)
(* Orthographic normalizer.                                                *)
(***************************************************************************)
\* faulty variant of remove_initial_apostrophe: the apostrophe stays
remove_initial_apostrophe_kept(word) == word

\* faulty variant of remove_initial_apostrophe: word.strip("'"), which takes
\* an apostrophe off the end as well
remove_apostrophe_both_ends(word) ==
    LET stripped == IF StartsWith(word, <<"'">>) THEN DropFirst(word, 1) ELSE word
    IN  IF EndsWith(stripped, <<"'">>) THEN DropLast(stripped, 1) ELSE stripped

remove_initial_apostrophe(word) ==
    IF StartsWith(word, <<"'">>) THEN DropFirst(word, 1) ELSE word

\* re.sub(r"([aeiouy])y", "\g<1>Y", word) from 1-based index i on: one pass
\* from the left, a match consuming both of its characters
RECURSIVE sub_vowel_y(_, _)
sub_vowel_y(word, i) ==
    IF i > Len(word)
    THEN <<>>
    ELSE IF i < Len(word) /\ word[i] \in Vowels /\ word[i + 1] = "y"
    THEN <<word[i], "Y">> \o sub_vowel_y(word, i + 2)
    ELSE <<word[i]>> \o sub_vowel_y(word, i + 1)

\* faulty variant of capitalize_consonant_ys: a leading y is not marked
capitalize_consonant_ys_keeps_first(word) == sub_vowel_y(word, 1)

\* faulty variant of capitalize_consonant_ys: every y after a vowel is
\* marked, also one whose vowel is a y taking part in the match before
capitalize_consonant_ys_overlapping(word) ==
    LET first == IF StartsWith(word, <<"y">>)
                 THEN <<"Y">> \o DropFirst(word, 1)
                 ELSE word
    IN  [i \in 1..Len(first) |->
            IF i > 1 /\ first[i] = "y" /\ first[i - 1] \in Vowels
            THEN "Y" ELSE first[i]]

capitalize_consonant_ys(word) ==
    LET first == IF StartsWith(word, <<"y">>)
                 THEN <<"Y">> \o DropFirst(word, 1)
                 ELSE word
    IN  sub_vowel_y(first, 1)

\* faulty variant of normalize_ys: word.replace('Y', 'y', 1), which reverts
\* the first sentinel only
normalize_ys_first(word) ==
    [i \in 1..Len(word) |->
        IF word[i] = "Y" /\ (\A j \in 1..(i - 1) : word[j] # "Y")
        THEN "y" ELSE word[i]]

normalize_ys(word) ==
    [i \in 1..Len(word) |-> IF word[i] = "Y" THEN "y" ELSE word[i]]

(***************************************************************************)
(* Step pipeline.                                                          *)
(***************************************************************************)
step_0(word) ==
    IF EndsWith(word, <<"'","s","'">>) THEN DropLast(word, 3)
    ELSE IF EndsWith(word, <<"'","s">>) THEN DropLast(word, 2)
    ELSE IF EndsWith(word, <<"'">>) THEN DropLast(word, 1)
    ELSE word

\* re.search(r"[aeiouy].", preceding)
has_vowel_then_any(preceding) ==
    \E i \in 1..(Len(preceding) - 1) :
        preceding[i] \in Vowels /\ Dot(preceding[i + 1])

\* re.search(r"[aeiouy]", preceding)
has_vowel(preceding) == \E i \in 1..Len(preceding) : preceding[i] \in Vowels

\* faulty variant of step_1a: the rule for a plain trailing s is missing
step_1a_keeps_s(word) ==
    IF EndsWith(word, <<"s","s","e","s">>) THEN DropLast(word, 4) \o <<"s","s">>
    ELSE IF EndsWith(word, <<"i","e","d">>) \/ EndsWith(word, <<"i","e","s">>)
    THEN IF Len(word) > 4
         THEN DropLast(word, 3) \o <<"i">>
         ELSE DropLast(word, 3) \o <<"i","e">>
    ELSE word

step_1a(word) ==
    IF EndsWith(word, <<"s","s","e","s">>) THEN DropLast(word, 4) \o <<"s","s">>
    ELSE IF EndsWith(word, <<"i","e","d">>) \/ EndsWith(word, <<"i","e","s">>)
    THEN IF Len(word) > 4
         THEN DropLast(word, 3) \o <<"i">>
         ELSE DropLast(word, 3) \o <<"i","e">>
    ELSE IF EndsWith(word, <<"u","s">>) \/ EndsWith(word, <<"s","s">>) THEN word
    ELSE IF EndsWith(word, <<"s">>)
    THEN LET preceding == DropLast(word, 1)
         IN  IF has_vowel_then_any(preceding) THEN preceding ELSE word
    ELSE word

doubles == <<<<"b","b">>, <<"d","d">>, <<"f","f">>, <<"g","g">>, <<"m","m">>, <<"n","n">>, <<"p","p">>, <<"r","r">>, <<"t","t">>>>

ends_with_double(word) == \E i \in 1..Len(doubles) : EndsWith(word, doubles[i])

step_1b_helper(word) ==
    IF EndsWith(word, <<"a","t">>) \/ EndsWith(word, <<"b","l">>) \/ EndsWith(word, <<"i","z">>)
    THEN word \o <<"e">>
    ELSE IF ends_with_double(word) THEN DropLast(word, 1)
    ELSE IF is_short_word(word) THEN word \o <<"e">>
    ELSE word

step_1b_suffixes == <<<<"e","d">>, <<"e","d","l","y">>, <<"i","n","g">>, <<"i","n","g","l","y">>>>

\* the loop over suffixes from entry i on: the first suffix the word ends
\* with decides
RECURSIVE step_1b_loop(_, _)
step_1b_loop(word, i) ==
    IF i > Len(step_1b_suffixes) THEN word
    ELSE IF EndsWith(word, step_1b_suffixes[i])
    THEN LET preceding == DropLast(word, Len(step_1b_suffixes[i]))
         IN  IF has_vowel(preceding) THEN step_1b_helper(preceding) ELSE word
    ELSE step_1b_loop(word, i + 1)

\* faulty variant of step_1b: a word in eed or eedly whose R1 test fails
\* goes on to the ed and edly suffixes
step_1b_falls_through(word, r1) ==
    IF EndsWith(word, <<"e","e","d","l","y">>) /\ Len(word) - 5 >= r1
    THEN DropLast(word, 3)
    ELSE IF EndsWith(word, <<"e","e","d">>) /\ Len(word) - 3 >= r1
    THEN DropLast(word, 1)
    ELSE step_1b_loop(word, 1)

step_1b(word, r1) ==
    IF EndsWith(word, <<"e","e","d","l","y">>)
    THEN IF Len(word) - 5 >= r1 THEN DropLast(word, 3) ELSE word
    ELSE IF EndsWith(word, <<"e","e","d">>)
    THEN IF Len(word) - 3 >= r1 THEN DropLast(word, 1) ELSE word
    ELSE step_1b_loop(word, 1)

\* word[-2] of a one-character word raises IndexError
step_1c_raises(word) ==
    /\ EndsWith(word, <<"y">>) \/ EndsWith(word, <<"Y">>)
    /\ Len(word) < 2

step_1c(word) ==
    IF /\ EndsWith(word, <<"y">>) \/ EndsWith(word, <<"Y">>)
       /\ word[Len(word) - 1] \notin Vowels
       /\ Len(word) > 2
    THEN DropLast(word, 1) \o <<"i">>
    ELSE word

\* "if attempt:" is false for None and for the empty string
Truthy(attempt) == attempt # None /\ attempt # <<>>

step_2_triples ==
    << <<<<"i","z","a","t","i","o","n">>, <<"i","z","e">>, {}>>,
       <<<<"a","t","i","o","n","a","l">>, <<"a","t","e">>, {}>>,
       <<<<"f","u","l","n","e","s","s">>, <<"f","u","l">>, {}>>,
       <<<<"o","u","s","n","e","s","s">>, <<"o","u","s">>, {}>>,
       <<<<"i","v","e","n","e","s","s">>, <<"i","v","e">>, {}>>,
       <<<<"t","i","o","n","a","l">>, <<"t","i","o","n">>, {}>>,
       <<<<"b","i","l","i","t","i">>, <<"b","l","e">>, {}>>,
       <<<<"l","e","s","s","l","i">>, <<"l","e","s","s">>, {}>>,
       <<<<"e","n","t","l","i">>, <<"e","n","t">>, {}>>,
       <<<<"a","t","i","o","n">>, <<"a","t","e">>, {}>>,
       <<<<"a","l","i","s","m">>, <<"a","l">>, {}>>,
       <<<<"a","l","i","t","i">>, <<"a","l">>, {}>>,
       <<<<"o","u","s","l","i">>, <<"o","u","s">>, {}>>,
       <<<<"i","v","i","t","i">>, <<"i","v","e">>, {}>>,
       <<<<"f","u","l","l","i">>, <<"f","u","l">>, {}>>,
       <<<<"e","n","c","i">>, <<"e","n","c","e">>, {}>>,
       <<<<"a","n","c","i">>, <<"a","n","c","e">>, {}>>,
       <<<<"a","b","l","i">>, <<"a","b","l","e">>, {}>>,
       <<<<"i","z","e","r">>, <<"i","z","e">>, {}>>,
       <<<<"a","t","o","r">>, <<"a","t","e">>, {}>>,
       <<<<"a","l","l","i">>, <<"a","l">>, {}>>,
       <<<<"b","l","i">>, <<"b","l","e">>, {}>>,
       <<<<"o","g","i">>, <<"o","g">>, {<<"l">>}>>,
       <<<<"l","i">>, <<>>, {<<"c">>, <<"d">>, <<"e">>, <<"g">>, <<"h">>, <<"k">>, <<"m">>, <<"n">>, <<"r">>, <<"t">>}>> >>

\* faulty variant of step_2_helper: an entry whose test fails is taken as
\* not matching, so that the loop goes on to the shorter entries
step_2_helper_goes_on(word, r1, end, repl, prev) ==
    IF /\ EndsWith(word, end)
       /\ Len(word) - Len(end) >= r1
       /\ \/ prev = {}
          \/ \E p \in prev : EndsWith(DropLast(word, Len(end)), p)
    THEN DropLast(word, Len(end)) \o repl
    ELSE None

\* prev is the set of the entries of the list prev: only membership is used
step_2_helper(word, r1, end, repl, prev) ==
    IF EndsWith(word, end)
    THEN IF /\ Len(word) - Len(end) >= r1
            /\ \/ prev = {}
               \/ \E p \in prev : EndsWith(DropLast(word, Len(end)), p)
         THEN DropLast(word, Len(end)) \o repl
         ELSE word
    ELSE None

RECURSIVE step_2_loop(_, _, _)
step_2_loop(word, r1, i) ==
    IF i > Len(step_2_triples) THEN word
    ELSE LET trip == step_2_triples[i]
             attempt == step_2_helper(word, r1, trip[1], trip[2], trip[3])
         IN  IF Truthy(attempt) THEN attempt ELSE step_2_loop(word, r1, i + 1)

step_2(word, r1) == step_2_loop(word, r1, 1)

step_3_triples ==
    << <<<<"a","t","i","o","n","a","l">>, <<"a","t","e">>, FALSE>>,
       <<<<"t","i","o","n","a","l">>, <<"t","i","o","n">>, FALSE>>,
       <<<<"a","l","i","z","e">>, <<"a","l">>, FALSE>>,
       <<<<"i","c","a","t","e">>, <<"i","c">>, FALSE>>,
       <<<<"i","c","i","t","i">>, <<"i","c">>, FALSE>>,
       <<<<"a","t","i","v","e">>, <<>>, TRUE>>,
       <<<<"i","c","a","l">>, <<"i","c">>, FALSE>>,
       <<<<"n","e","s","s">>, <<>>, FALSE>>,
       <<<<"f","u","l">>, <<>>, FALSE>> >>

step_3_helper(word, r1, r2, end, repl, r2_necessary) ==
    IF EndsWith(word, end)
    THEN IF /\ Len(word) - Len(end) >= r1
            /\ (~r2_necessary \/ Len(word) - Len(end) >= r2)
         THEN DropLast(word, Len(end)) \o repl
         ELSE word
    ELSE None

RECURSIVE step_3_loop(_, _, _, _)
step_3_loop(word, r1, r2, i) ==
    IF i > Len(step_3_triples) THEN word
    ELSE LET trip == step_3_triples[i]
             attempt == step_3_helper(word, r1, r2, trip[1], trip[2], trip[3])
         IN  IF Truthy(attempt) THEN attempt
             ELSE step_3_loop(word, r1, r2, i + 1)

step_3(word, r1, r2) == step_3_loop(word, r1, r2, 1)

delete_list ==
    <<<<"a","l">>, <<"a","n","c","e">>, <<"e","n","c","e">>, <<"e","r">>, <<"i","c">>, <<"a","b","l","e">>, <<"i","b","l","e">>, <<"a","n","t">>,
      <<"e","m","e","n","t">>, <<"m","e","n","t">>, <<"e","n","t">>, <<"i","s","m">>, <<"a","t","e">>, <<"i","t","i">>, <<"o","u","s">>, <<"i","v","e">>,
      <<"i","z","e">>>>

\* faulty variant of step_4_loop: a suffix whose test fails is passed over
\* and the shorter suffixes after it are tried
RECURSIVE step_4_loop_goes_on(_, _, _)
step_4_loop_goes_on(word, r2, i) ==
    IF i > Len(delete_list)
    THEN IF /\ EndsWith(word, <<"s","i","o","n">>) \/ EndsWith(word, <<"t","i","o","n">>)
            /\ Len(word) - 3 >= r2
         THEN DropLast(word, 3)
         ELSE word
    ELSE IF /\ EndsWith(word, delete_list[i])
            /\ Len(word) - Len(delete_list[i]) >= r2
    THEN DropLast(word, Len(delete_list[i]))
    ELSE step_4_loop_goes_on(word, r2, i + 1)

RECURSIVE step_4_loop(_, _, _)
step_4_loop(word, r2, i) ==
    IF i > Len(delete_list)
    THEN IF /\ EndsWith(word, <<"s","i","o","n">>) \/ EndsWith(word, <<"t","i","o","n">>)
            /\ Len(word) - 3 >= r2
         THEN DropLast(word, 3)
         ELSE word
    ELSE IF EndsWith(word, delete_list[i])
    THEN IF Len(word) - Len(delete_list[i]) >= r2
         THEN DropLast(word, Len(delete_list[i]))
         ELSE word
    ELSE step_4_loop(word, r2, i + 1)

step_4(word, r2) == step_4_loop(word, r2, 1)

\* word[-2] of a one-character word raises IndexError; "and" evaluates it
\* only when the length test before it holds
step_5_raises(word, r2) ==
    /\ EndsWith(word, <<"l">>)
    /\ Len(word) - 1 >= r2
    /\ Len(word) < 2

step_5(word, r1, r2) ==
    IF EndsWith(word, <<"l">>)
    THEN IF Len(word) - 1 >= r2 /\ word[Len(word) - 1] = "l"
         THEN DropLast(word, 1)
         ELSE word
    ELSE IF EndsWith(word, <<"e">>)
    THEN IF Len(word) - 1 >= r2 THEN DropLast(word, 1)
         ELSE IF /\ Len(word) - 1 >= r1
                 /\ ~ends_with_short_syllable(DropLast(word, 1))
         THEN DropLast(word, 1)
         ELSE word
    ELSE word

(***************************************************************************)
(* Exception tables.                                                       *)
(***************************************************************************)
exceptional_forms ==
    (<<"s","k","i","s">> :> <<"s","k","i">>) @@ (<<"s","k","i","e","s">> :> <<"s","k","y">>) @@ (<<"d","y","i","n","g">> :> <<"d","i","e">>) @@
    (<<"l","y","i","n","g">> :> <<"l","i","e">>) @@ (<<"t","y","i","n","g">> :> <<"t","i","e">>) @@ (<<"i","d","l","y">> :> <<"i","d","l">>) @@
    (<<"g","e","n","t","l","y">> :> <<"g","e","n","t","l">>) @@ (<<"u","g","l","y">> :> <<"u","g","l","i">>) @@
    (<<"e","a","r","l","y">> :> <<"e","a","r","l","i">>) @@ (<<"o","n","l","y">> :> <<"o","n","l","i">>) @@
    (<<"s","i","n","g","l","y">> :> <<"s","i","n","g","l">>) @@ (<<"s","k","y">> :> <<"s","k","y">>) @@ (<<"n","e","w","s">> :> <<"n","e","w","s">>) @@
    (<<"h","o","w","e">> :> <<"h","o","w","e">>) @@ (<<"a","t","l","a","s">> :> <<"a","t","l","a","s">>) @@
    (<<"c","o","s","m","o","s">> :> <<"c","o","s","m","o","s">>) @@ (<<"b","i","a","s">> :> <<"b","i","a","s">>) @@
    (<<"a","n","d","e","s">> :> <<"a","n","d","e","s">>)

exceptional_early_exit_post_1a ==
    {<<"i","n","n","i","n","g">>, <<"o","u","t","i","n","g">>, <<"c","a","n","n","i","n","g">>, <<"h","e","r","r","i","n","g">>, <<"e","a","r","r","i","n","g">>, <<"p","r","o","c","e","e","d">>,
     <<"e","x","c","e","e","d">>, <<"s","u","c","c","e","e","d">>}

(***************************************************************************)
(* UTF-8, as far as the model's code points go.                            *)
(***************************************************************************)
\* the bytes of one code point
utf8_bytes(c) == IF c = "U+00E9" THEN <<"0xC3", "0xA9">> ELSE <<c>>

\* unicode.encode('utf-8')
RECURSIVE encode_utf8(_)
encode_utf8(text) ==
    IF text = <<>> THEN <<>>
    ELSE utf8_bytes(Head(text)) \o encode_utf8(Tail(text))

\* what str.decode raises on a malformed byte string: a value that is no text
UnicodeDecodeError == <<"UnicodeDecodeError">>

\* str.decode('utf-8'): a lead byte takes its continuation byte, a stray
\* lead or continuation byte is malformed
RECURSIVE decode_utf8(_)
decode_utf8(bytes) ==
    IF bytes = <<>> THEN <<>>
    ELSE IF Head(bytes) = "0xC3"
    THEN IF Len(bytes) >= 2 /\ bytes[2] = "0xA9"
         THEN LET rest == decode_utf8(DropFirst(bytes, 2))
              IN  IF rest = UnicodeDecodeError THEN UnicodeDecodeError
                  ELSE <<"U+00E9">> \o rest
         ELSE UnicodeDecodeError
    ELSE IF Head(bytes) = "0xA9" THEN UnicodeDecodeError
    ELSE LET rest == decode_utf8(Tail(bytes))
         IN  IF rest = UnicodeDecodeError THEN UnicodeDecodeError
             ELSE <<Head(bytes)>> \o rest

(***************************************************************************)
(* The arguments stemWord is called with.                                  *)
(***************************************************************************)
\* bytes of the enumerated byte strings: vowels, the sentinel, the
\* possessive marker's characters, suffix letters, an uppercase letter and
\* the newline
ByteAlphabet == {"a", "e", "i", "y", "Y", "'", "s", "d", "l", "K", "\n"}

\* code points of the enumerated unicode objects
UnicodeAlphabet == {"a", "y", "Y", "'", "s", "U+00E9"}

\* every word over an alphabet up to a length
WordsUpTo(alphabet, n) == UNION {[1..k -> alphabet] : k \in 0..n}

\* words of the module's tests (testStem, testGetR1, testStep1a .. testStep5)
\* and of the two exception tables
ListedWords ==
    DOMAIN exceptional_forms \cup exceptional_early_exit_post_1a \cup
    {<<"m","i","k","e">>, <<"c","o","n","s","i","g","n">>, <<"c","o","n","s","i","g","n","e","d">>, <<"c","o","n","s","i","g","n","i","n","g">>, <<"c","o","n","s","i","g","n","m","e","n","t">>,
     <<"c","o","n","s","i","s","t">>, <<"c","o","n","s","i","s","t","e","d">>, <<"c","o","n","s","i","s","t","e","n","c","y">>, <<"c","o","n","s","i","s","t","e","n","t">>,
     <<"c","o","n","s","i","s","t","e","n","t","l","y">>, <<"c","o","n","s","i","s","t","i","n","g">>, <<"c","o","n","s","i","s","t","s">>, <<"c","a","r","e","s","s","e","s">>,
     <<"g","e","n","e","r","a","l","i","z","a","t","i","o","n">>, <<"g","e","n","e","r","o","u","s","l","y">>, <<"c","o","m","m","u","n","i","s","m">>, <<"a","r","s","e","n","i","c","a","l">>,
     <<"c","a","n","n","i","n","g","e","r">>, <<"p","r","o","c","e","e","d","e","r">>, <<"e","x","c","e","e","d","i","n","g">>, <<"b","e","a","u","t","i","f","u","l">>, <<"y","o","u","t","h">>,
     <<"b","o","y","i","s","h">>, <<"s","a","y","y","i","d">>, <<"h","o","p","p","i","n","g">>, <<"h","o","p","e","d">>, <<"l","u","x","u","r","i","a","t","e","d">>,
     <<"a","g","r","e","e","d","l","y">>, <<"c","r","i","e","d">>, <<"t","i","e","s">>, <<"s","e","n","s","a","t","i","o","n","a","l">>, <<"r","a","t","i","o","n","a","l","i","z","e">>,
     <<"g","o","o","d","n","e","s","s">>, <<"f","o","r","m","a","t","i","v","e">>, <<"r","e","p","l","a","c","e","m","e","n","t">>, <<"a","d","o","p","t","i","o","n">>, <<"r","e","c","a","l","l">>,
     <<"g","e","n","e","r">>, <<"y","y">>}

\* with and without a leading apostrophe, a plural s and a possessive marker
Affixed(words) ==
    {pre \o w \o post :
        pre \in {<<>>, <<"'">>},
        w \in words,
        post \in {<<>>, <<"s">>, <<"'">>, <<"'","s">>, <<"'","s","'">>}}

\* words that step 1b leaves with a remainder ending in a short syllable:
\* with R1 inside the remainder (visit), at its end (hop), and set by the
\* prefixes gener, arsen and commun
ShortSyllableWords ==
    {<<"v","i","s","i","t","e","d">>, <<"v","i","s","i","t","i","n","g">>, <<"h","o","p","e","d","l","y">>, <<"h","o","p","i","n","g","l","y">>, <<"g","e","n","e","r","e","d">>,
     <<"a","r","s","e","n","i","n","g">>, <<"c","o","m","m","u","n","e","d">>, <<"c","o","m","m","u","n","i","n","g","l","y">>}

ByteStrings ==
    WordsUpTo(ByteAlphabet, MaxLen) \cup Affixed(ListedWords \cup ShortSyllableWords)

UnicodeObjects ==
    WordsUpTo(UnicodeAlphabet, MaxLen) \cup Affixed(ListedWords \cup ShortSyllableWords)

Inputs ==
    [unicode : {FALSE}, text : ByteStrings] \cup
    [unicode : {TRUE}, text : UnicodeObjects]

(***************************************************************************)
(* Stemmer._stem as a state machine.                                       *)
(***************************************************************************)
VARIABLES
    input,        \* the argument of the call: [unicode, text]
    was_unicode,  \* local was_unicode
    word,         \* local word
    r1,           \* local r1
    r2,           \* local r2
    pc,           \* the statement to execute next, "returned" or "raised"
    result,       \* the value returned: [unicode, text]
    done,         \* the statements executed so far, in order
    fn,           \* a function of the module called on its own, or "none"
    arg,          \* its arguments
    ret           \* what it returned or raised

vars == <<input, was_unicode, word, r1, r2, pc, result, done, fn, arg, ret>>

\* no function is called on its own while a stemWord call is followed
NoCall == <<>>

\* a local that is not bound yet
Unbound == -1

\* no value returned (yet)
NoResult == [unicode |-> FALSE, text |-> None]

Init ==
    /\ input \in Inputs
    /\ was_unicode = FALSE
    /\ word = input.text
    /\ r1 = Unbound
    /\ r2 = Unbound
    /\ pc = "encode"
    /\ result = NoResult
    /\ done = <<>>
    /\ fn = "none"
    /\ arg = NoCall
    /\ ret = NoCall

\* the statement at pc is executed and control goes to next
Goto(stage, next) ==
    /\ pc = stage
    /\ pc' = next
    /\ done' = Append(done, stage)
    /\ UNCHANGED <<fn, arg, ret>>

\* "return value": a byte string unless decoded
ReturnBytes(stage, value) ==
    /\ Goto(stage, "returned")
    /\ result' = [unicode |-> FALSE, text |-> value]

\* an exception leaves the call
Raise(stage) ==
    /\ Goto(stage, "raised")
    /\ UNCHANGED result

IsInstanceUnicode ==
    /\ Goto("encode", "length")
    /\ was_unicode' = input.unicode
    /\ word' = IF input.unicode THEN encode_utf8(word) ELSE word
    /\ UNCHANGED <<input, r1, r2, result>>

LengthCheck ==
    /\ pc = "length"
    /\ IF Len(word) <= 2
       THEN ReturnBytes("length", word)
       ELSE Goto("length", "strip") /\ UNCHANGED result
    /\ UNCHANGED <<input, was_unicode, word, r1, r2>>

RemoveInitialApostrophe ==
    /\ Goto("strip", "lookup")
    /\ word' = remove_initial_apostrophe(word)
    /\ UNCHANGED <<input, was_unicode, r1, r2, result>>

ExceptionalForms ==
    /\ pc = "lookup"
    /\ IF word \in DOMAIN exceptional_forms
       THEN ReturnBytes("lookup", exceptional_forms[word])
       ELSE Goto("lookup", "mark") /\ UNCHANGED result
    /\ UNCHANGED <<input, was_unicode, word, r1, r2>>

CapitalizeConsonantYs ==
    /\ Goto("mark", "regions")
    /\ word' = capitalize_consonant_ys(word)
    /\ UNCHANGED <<input, was_unicode, r1, r2, result>>

Regions ==
    /\ Goto("regions", "step0")
    /\ r1' = get_r1(word)
    /\ r2' = get_r2(word)
    /\ UNCHANGED <<input, was_unicode, word, result>>

\* step 0 followed by a second computation of the regions, from the word
\* it leaves
Step0_recomputes ==
    /\ Goto("step0", "step1a")
    /\ word' = step_0(word)
    /\ r1' = get_r1(word')
    /\ r2' = get_r2(word')
    /\ UNCHANGED <<input, was_unicode, result>>

Step0 ==
    /\ Goto("step0", "step1a")
    /\ word' = step_0(word)
    /\ UNCHANGED <<input, was_unicode, r1, r2, result>>

Step1a ==
    /\ Goto("step1a", "post1a")
    /\ word' = step_1a(word)
    /\ UNCHANGED <<input, was_unicode, r1, r2, result>>

EarlyExitPost1a ==
    /\ pc = "post1a"
    /\ IF word \in exceptional_early_exit_post_1a
       THEN ReturnBytes("post1a", word)
       ELSE Goto("post1a", "step1b") /\ UNCHANGED result
    /\ UNCHANGED <<input, was_unicode, word, r1, r2>>

Step1b ==
    /\ Goto("step1b", "step1c")
    /\ word' = step_1b(word, r1)
    /\ UNCHANGED <<input, was_unicode, r1, r2, result>>

Step1c ==
    /\ pc = "step1c"
    /\ IF step_1c_raises(word)
       THEN Raise("step1c") /\ UNCHANGED word
       ELSE /\ Goto("step1c", "step2")
            /\ word' = step_1c(word)
            /\ UNCHANGED result
    /\ UNCHANGED <<input, was_unicode, r1, r2>>

Step2 ==
    /\ Goto("step2", "step3")
    /\ word' = step_2(word, r1)
    /\ UNCHANGED <<input, was_unicode, r1, r2, result>>

Step3 ==
    /\ Goto("step3", "step4")
    /\ word' = step_3(word, r1, r2)
    /\ UNCHANGED <<input, was_unicode, r1, r2, result>>

Step4 ==
    /\ Goto("step4", "step5")
    /\ word' = step_4(word, r2)
    /\ UNCHANGED <<input, was_unicode, r1, r2, result>>

Step5 ==
    /\ pc = "step5"
    /\ IF step_5_raises(word, r2)
       THEN Raise("step5") /\ UNCHANGED word
       ELSE /\ Goto("step5", "unmark")
            /\ word' = step_5(word, r1, r2)
            /\ UNCHANGED result
    /\ UNCHANGED <<input, was_unicode, r1, r2>>

NormalizeYs ==
    /\ Goto("unmark", "decode")
    /\ word' = normalize_ys(word)
    /\ UNCHANGED <<input, was_unicode, r1, r2, result>>

Return ==
    /\ pc = "decode"
    /\ IF was_unicode
       THEN IF decode_utf8(word) = UnicodeDecodeError
            THEN Raise("decode")
            ELSE /\ Goto("decode", "returned")
                 /\ result' = [unicode |-> TRUE, text |-> decode_utf8(word)]
       ELSE ReturnBytes("decode", word)
    /\ UNCHANGED <<input, was_unicode, word, r1, r2>>

Next ==
    \/ IsInstanceUnicode
    \/ LengthCheck
    \/ RemoveInitialApostrophe
    \/ ExceptionalForms
    \/ CapitalizeConsonantYs
    \/ Regions
    \/ Step0
    \/ Step1a
    \/ EarlyExitPost1a
    \/ Step1b
    \/ Step1c
    \/ Step2
    \/ Step3
    \/ Step4
    \/ Step5
    \/ NormalizeYs
    \/ Return

Spec == Init /\ [][Next]_vars

\* a call runs on until it returns or raises: nothing else is scheduled
LiveSpec == Init /\ [][Next]_vars /\ WF_vars(Next)

(***************************************************************************)
(* The functions of the module called on their own.  A call is one step:   *)
(* fn names the function, arg holds its arguments and ret what it returned *)
(* or raised, as [raised, value] with raised = "" for a return.            *)
(***************************************************************************)
\* the value of a call that raised
NoValue == <<>>

Returns(value) == [raised |-> "", value |-> value]

Raises(exception) == [raised |-> exception, value |-> NoValue]

\* what word[-2] raises on a one-character word: a value that is no text
IndexError == <<"IndexError">>

\* Stemmer._stem as a function of its argument [unicode, text]: the value
\* returned, or a text of IndexError or UnicodeDecodeError when it raises
stemWord(value) ==
    LET encoded == IF value.unicode THEN encode_utf8(value.text) ELSE value.text
        stripped == remove_initial_apostrophe(encoded)
        marked == capitalize_consonant_ys(stripped)
        region1 == get_r1(marked)
        region2 == get_r2(marked)
        after_1a == step_1a(step_0(marked))
        after_1b == step_1b(after_1a, region1)
        after_1c == step_1c(after_1b)
        after_4 == step_4(step_3(step_2(after_1c, region1), region1, region2),
                          region2)
        final == normalize_ys(step_5(after_4, region1, region2))
    IN  IF Len(encoded) <= 2 THEN [unicode |-> FALSE, text |-> encoded]
        ELSE IF stripped \in DOMAIN exceptional_forms
        THEN [unicode |-> FALSE, text |-> exceptional_forms[stripped]]
        ELSE IF after_1a \in exceptional_early_exit_post_1a
        THEN [unicode |-> FALSE, text |-> after_1a]
        ELSE IF step_1c_raises(after_1b) \/ step_5_raises(after_4, region2)
        THEN [unicode |-> FALSE, text |-> IndexError]
        ELSE IF value.unicode
        THEN [unicode |-> TRUE, text |-> decode_utf8(final)]
        ELSE [unicode |-> FALSE, text |-> final]

\* the exception a stemWord result stands for, "" for a value
RaisedBy(stem) ==
    IF stem.text = IndexError THEN "IndexError"
    ELSE IF stem.text = UnicodeDecodeError THEN "UnicodeDecodeError"
    ELSE ""

\* Stemmer.stemWords: the list comprehension stems the words from the left
\* and the first exception leaves it
RECURSIVE stemWords(_)
stemWords(words) ==
    IF words = <<>> THEN Returns(<<>>)
    ELSE LET first == stemWord(Head(words))
             rest == stemWords(Tail(words))
         IN  IF RaisedBy(first) # "" THEN Raises(RaisedBy(first))
             ELSE IF rest.raised # "" THEN rest
             ELSE Returns(<<first>> \o rest.value)

\* Stemmer.max_cache_size, the class attribute
max_cache_size == 10000

\* a lookup that folds the case of the identifier
algorithm_found_any_case(algorithm) ==
    algorithm \in {"english", "eng", "en", "English", "ENGLISH", "EN", "Eng"}

\* "algorithm not in ['english', 'eng', 'en']", negated
algorithm_found(algorithm) == algorithm \in {"english", "eng", "en"}

\* Stemmer.__init__: cache_size is <<>> for None and <<n>> for a number n;
\* "if cache_size:" is false for None and for 0
Stemmer_init(algorithm, cache_size) ==
    IF ~algorithm_found(algorithm) THEN Raises("KeyError")
    ELSE IF cache_size # <<>> /\ cache_size[1] # 0
    THEN Returns([max_cache_size |-> cache_size[1]])
    ELSE Returns([max_cache_size |-> max_cache_size])

\* the entry point of the old API while it still stemmed, as stem of
\* porter2.py does
stem_old_api(text) == Returns(stemWord([unicode |-> FALSE, text |-> text]).text)

\* stem, the entry point of the old API
stem(text) == Raises("DeprecationWarning")

(***************************************************************************)
(* The arguments of these calls.                                           *)
(***************************************************************************)
\* longest list of words handed to stemWords
MaxWords == 3

\* the words of the lists: byte strings and unicode objects, of every
\* return path of stemWord, and one that makes it raise
WordSamples ==
    {[unicode |-> FALSE, text |-> <<"m","i","k","e">>],
     [unicode |-> FALSE, text |-> <<"s","k","i","e","s">>],
     [unicode |-> TRUE, text |-> <<"c","o","n","s","i","s","t","i","n","g">>],
     [unicode |-> TRUE, text |-> <<"a","b">>],
     [unicode |-> FALSE, text |-> <<"h","e","r","r","i","n","g","s">>],
     [unicode |-> FALSE, text |-> <<"y","'","s">>]}

WordLists == WordsUpTo(WordSamples, MaxWords)

\* algorithm identifiers: the three of the source, other spellings of
\* them and the names of testModule
AlgorithmNames ==
    {"english", "eng", "en", "English", "ENGLISH", "EN", "Eng", "e", "",
     "porter", "random", "english ", "porter2"}

\* cache sizes: None, 0 and numbers below and above the default
CacheSizes == {<<>>, <<0>>, <<1>>, <<500>>, <<20000>>}

\* the words of testGetR1 and testGetR2, and words whose remainder after R1
\* begins with one of the prefixes get_r1 treats apart
RegionWords ==
    {<<"b","e","a","u","t","i","f","u","l">>, <<"b","e","a","u","t","y">>, <<"b","e","a","u">>, <<"a","n","i","m","a","d","v","e","r","s","i","o","n">>, <<"s","p","r","i","n","k","l","e","d">>, <<"e","u","c","h","a","r","i","s","t">>,
     <<"g","e","n","e","r">>, <<"g","e","n","e","r","o","u","s">>, <<"g","e","n","e","r","o","u","s","i","t","y">>, <<"g","e","n","e","r","a","l">>, <<"g","e","n","e","r","a","l","l","y">>, <<"g","e","n","e","r","a","l","i","t","y">>,
     <<"c","o","m","m","u","n">>, <<"c","o","m","m","u","n","i","s","t">>, <<"c","o","m","m","u","n","a","l">>, <<"c","o","m","m","u","n","i","s","t","i","c">>,
     <<"a","r","s","e","n">>, <<"a","r","s","e","n","i","c">>, <<"a","r","s","e","n","a","l">>, <<"a","r","s","e","n","a","l","i","t","y">>,
     <<"g","e","n","e">>, <<"a","r","s","e">>, <<"c","o","m","m","u">>, <<"Y","g","e","n","e","r","a","l">>,
     <<"a","b","g","e","n","e","r","a","l">>, <<"o","b","c","o","m","m","u","n","a","l">>, <<"i","b","a","r","s","e","n","a","l">>, <<"g","e","n","e","r","a","r","s","e","n","a","l">>}

\* longest stem put before a suffix in the arguments of the step functions
MaxStem == 3

\* vowels, the letters of at, bl and iz, of the doubles bb and tt, the x
\* that ends no short syllable, the marked Y and the newline
StemAlphabet == {"a", "i", "t", "b", "l", "z", "x", "Y", "\n"}

Stems == WordsUpTo(StemAlphabet, MaxStem)

\* the words of testStep1a
Step1aTestWords ==
    {<<>>, <<"c","a","r","e","s","s","e","s">>, <<"s","s","e","s">>, <<"s","s","e","s","m","i","k","e">>, <<"t","i","e","d">>, <<"c","r","i","e","s">>, <<"t","i","e","s">>,
     <<"h","u","r","r","i","e","d">>, <<"g","a","s">>, <<"t","h","i","s">>, <<"g","a","p","s">>, <<"k","i","w","i","s">>, <<"b","u","s">>, <<"m","i","k","e","u","s">>,
     <<"m","i","k","e","s","s">>, <<"t","r","u","s","s">>}

\* a stem before each ending step_1a knows, and before none
Step1aWords ==
    {s \o suffix :
        s \in Stems,
        suffix \in {<<>>, <<"s","s","e","s">>, <<"i","e","d">>, <<"i","e","s">>, <<"u","s">>, <<"s","s">>, <<"s">>}}
    \cup Step1aTestWords

\* the words of testStep1b
Step1bTestWords ==
    {<<>>, <<"e","d">>, <<"e","e","d">>, <<"i","n","g">>, <<"h","e","e","d">>, <<"c","o","h","e","e","d">>, <<"h","e","e","d","l","y">>, <<"s","h","r","e","d">>,
     <<"l","u","x","u","r","i","a","t","e","d">>, <<"l","u","x","u","r","i","a","t","e","d","l","y">>, <<"l","u","x","u","r","i","a","t","i","n","g">>, <<"l","u","x","u","r","i","a","t","i","n","g","l","y">>,
     <<"d","i","s","a","b","l","e","d">>, <<"d","i","s","a","b","l","i","n","g","l","y">>, <<"c","a","u","t","e","r","i","z","e","d","l","y">>, <<"c","a","u","t","e","r","i","z","i","n","g">>,
     <<"h","o","p","p","e","d">>, <<"c","l","u","b","b","i","n","g">>, <<"t","r","o","d","d","e","d","l","y">>, <<"p","u","f","f","i","n","g","l","y">>, <<"h","a","g","g","e","d">>,
     <<"s","p","a","m","m","i","n","g">>, <<"s","h","u","n","n","e","d","l","y">>, <<"t","o","r","r","e","d">>, <<"c","a","t","t","e","d">>, <<"e","x","a","z","z","e","d","l","y">>,
     <<"h","o","p","e","d">>, <<"h","o","p","e","d","l","y">>, <<"h","o","p","i","n","g">>, <<"h","o","p","i","n","g","l","y">>, <<"c","o","p","e","d">>}

\* words of two lines: a line break, then a word of one short syllable
\* before a suffix
Step1bLineWords ==
    {<<"\n","b","i","t">> \o suffix : suffix \in {<<>>, <<"e","d">>, <<"e","d","l","y">>, <<"i","n","g">>, <<"i","n","g","l","y">>}}

\* a stem before each suffix step_1b knows, and before none
Step1bWords ==
    {s \o suffix :
        s \in Stems,
        suffix \in {<<>>, <<"e","d">>, <<"e","d","l","y">>, <<"i","n","g">>, <<"i","n","g","l","y">>, <<"e","e","d">>, <<"e","e","d","l","y">>}}
    \cup Step1bTestWords \cup Step1bLineWords

\* R1 from 0 to beyond the longest stem
Step1bRegions == 0..(MaxStem + 1)

\* the words of testStep1c
Step1cTestWords ==
    {<<>>, <<"c","r","y">>, <<"b","y">>, <<"s","a","y">>, <<"c","r","Y">>, <<"b","Y">>, <<"s","a","Y">>}

\* a stem before y, Y and nothing
Step1cWords ==
    {s \o suffix : s \in Stems, suffix \in {<<>>, <<"y">>, <<"Y">>}}
    \cup Step1cTestWords

\* letters before a suffix: a vowel, the l that ogi asks for, a letter li
\* accepts (t, g) and letters it refuses (a, l)
ShortStemAlphabet == {"a", "l", "t", "g"}

ShortStems == WordsUpTo(ShortStemAlphabet, MaxStem)

\* offsets from 0 to beyond the longest stem followed by one or two letters
StepRegions == 0..(MaxStem + 2)

\* the words of testStep2
Step2TestWords ==
    {<<>>, <<"m","i","k","e">>, <<"e","m","o","t","i","o","n","a","l">>, <<"f","e","n","c","i">>, <<"n","e","c","r","o","m","a","n","c","i">>, <<"d","i","s","a","b","l","i">>,
     <<"e","v","i","d","e","n","t","l","i">>, <<"k","a","i","z","e","r">>, <<"k","a","i","z","a","t","i","o","n">>, <<"o","p","e","r","a","t","i","o","n","a","l">>, <<"o","p","e","r","a","t","i","o","n">>,
     <<"o","p","e","r","a","t","o","r">>, <<"r","a","t","i","o","n","a","l","i","s","m">>, <<"r","a","t","i","o","n","a","l","i","t","i">>, <<"r","a","t","i","o","n","a","l","l","i">>,
     <<"g","r","a","t","e","f","u","l","n","e","s","s">>, <<"o","b","v","i","o","u","s","l","i">>, <<"o","b","v","i","o","u","s","n","e","s","s">>, <<"r","e","s","p","o","n","s","i","v","e","n","e","s","s">>,
     <<"r","e","s","p","o","n","s","i","v","i","t","i">>, <<"a","b","i","l","i","t","i">>, <<"c","e","b","l","i">>, <<"a","p","o","g","i">>, <<"i","l","l","o","g","i">>,
     <<"g","r","a","c","e","f","u","l","l","i">>, <<"c","l","a","s","s","l","e","s","s","l","i">>, <<"c","a","l","i">>, <<"a","c","l","i">>, <<"a","d","l","i">>, <<"b","e","l","i">>,
     <<"a","g","l","i">>, <<"t","h","l","i">>, <<"l","i","k","l","i">>, <<"h","o","m","i","l","i">>, <<"t","a","m","l","i">>, <<"o","p","e","n","l","i">>, <<"e","a","r","l","i">>,
     <<"t","a","r","t","l","i">>}

\* a stem before each suffix of the table of step_2, and before none
Step2Words ==
    {s \o suffix :
        s \in ShortStems,
        suffix \in {step_2_triples[i][1] : i \in 1..Len(step_2_triples)} \cup {<<>>}}
    \cup Step2TestWords

\* the words of testStep3
Step3TestWords ==
    {<<>>, <<"m","i","k","e">>, <<"r","e","l","a","t","i","o","n","a","l">>, <<"e","m","o","t","i","o","n","a","l">>, <<"r","a","t","i","o","n","a","l","i","z","e">>,
     <<"i","n","t","r","i","c","a","t","e">>, <<"i","n","t","r","i","c","i","t","i">>, <<"i","n","t","r","i","c","a","l">>, <<"y","o","u","t","h","f","u","l">>, <<"h","a","p","p","i","n","e","s","s">>,
     <<"d","e","c","o","r","a","t","i","v","e">>}

\* a stem before each suffix of the table of step_3, and before none
Step3Words ==
    {s \o suffix :
        s \in ShortStems,
        suffix \in {step_3_triples[i][1] : i \in 1..Len(step_3_triples)} \cup {<<>>}}
    \cup Step3TestWords

\* the words of testStep4
Step4TestWords ==
    {<<>>, <<"m","i","k","e">>, <<"p","e","n","a","l">>, <<"p","a","n","c","e">>, <<"d","e","n","c","e">>, <<"h","e","a","d","e","r">>, <<"g","r","a","p","h","i","c">>,
     <<"t","a","b","l","e">>, <<"q","u","i","b","l","e">>, <<"r","e","c","a","n","t">>, <<"l","e","m","e","n","t">>, <<"m","e","n","t">>, <<"e","n","t">>, <<"s","c","h","i","s","m">>,
     <<"k","a","t","e">>, <<"c","i","t","i">>, <<"l","o","u","s">>, <<"h","i","v","e">>, <<"i","z","e">>}

\* a stem before each suffix of delete_list, before sion, tion and ion,
\* and before none
Step4Words ==
    {s \o suffix :
        s \in ShortStems,
        suffix \in {delete_list[i] : i \in 1..Len(delete_list)}
                       \cup {<<"s","i","o","n">>, <<"t","i","o","n">>, <<"i","o","n">>, <<>>}}
    \cup Step4TestWords

\* letters before a final e or l: a vowel, a consonant, the x that ends
\* no short syllable, l, and the newline
Step5Alphabet == {"a", "b", "x", "l", "\n"}

\* the words of testStep5
Step5TestWords ==
    {<<"m","i","k">>, <<"m","i","k","e">>, <<"m","i","x","e">>, <<"r","e","c","a","l","l">>, <<"r","e","c","a","l">>}

\* words of two lines: a short syllable after a line break, and one before
\* a final line break, both before e
Step5LineWords == {<<"\n","b","a","b","e">>, <<"b","a","b","\n","e">>}

\* a stem before e, l, ll and nothing
Step5Words ==
    {s \o suffix :
        s \in WordsUpTo(Step5Alphabet, MaxStem),
        suffix \in {<<>>, <<"e">>, <<"l">>, <<"l","l">>}}
    \cup Step5TestWords \cup Step5LineWords

\* the words of testCapitalizeConsonantYs
CapitalizeTestWords ==
    {<<>>, <<"m","i","k","e">>, <<"y","o","u","t","h">>, <<"b","o","y">>, <<"b","o","y","i","s","h">>, <<"f","l","y">>, <<"f","l","y","i","n","g">>, <<"s","y","z","y","g","y">>,
     <<"s","a","y","y","i","d">>}

\* runs of y between a vowel, a consonant and a marked Y
CapitalizeWords ==
    WordsUpTo({"a", "y", "Y", "b"}, MaxStem + 1) \cup CapitalizeTestWords

(***************************************************************************)
(* The calls.                                                              *)
(***************************************************************************)
\* no stemWord call is followed while a function is called on its own
InitCalls ==
    /\ input = [unicode |-> FALSE, text |-> <<>>]
    /\ was_unicode = FALSE
    /\ word = <<>>
    /\ r1 = Unbound
    /\ r2 = Unbound
    /\ pc = "idle"
    /\ result = NoResult
    /\ done = <<>>
    /\ fn = "none"
    /\ arg = NoCall
    /\ ret = NoCall

\* no function has been called yet
Idle == fn = "none"

\* function name is called with arguments args and yields outcome
Call(name, args, outcome) ==
    /\ fn' = name
    /\ arg' = args
    /\ ret' = outcome
    /\ UNCHANGED <<input, was_unicode, word, r1, r2, pc, result, done>>

CallStemWords ==
    /\ Idle
    /\ \E words \in WordLists : Call("stemWords", words, stemWords(words))

CallStemmer ==
    /\ Idle
    /\ \E algorithm \in AlgorithmNames, cache_size \in CacheSizes :
           Call("Stemmer", [algorithm |-> algorithm, cache_size |-> cache_size],
                Stemmer_init(algorithm, cache_size))

CallStem ==
    /\ Idle
    /\ \E text \in ByteStrings : Call("stem", text, stem(text))

CallGetR1 ==
    /\ Idle
    /\ \E text \in ByteStrings \cup RegionWords :
           Call("get_r1", text, Returns(get_r1(text)))

CallGetR2 ==
    /\ Idle
    /\ \E text \in ByteStrings \cup RegionWords :
           Call("get_r2", text, Returns(get_r2(text)))

CallStep1a ==
    /\ Idle
    /\ \E text \in Step1aWords : Call("step_1a", text, Returns(step_1a(text)))

CallStep1b ==
    /\ Idle
    /\ \E text \in Step1bWords, region1 \in Step1bRegions :
           Call("step_1b", [word |-> text, r1 |-> region1],
                Returns(step_1b(text, region1)))

CallStep1c ==
    /\ Idle
    /\ \E text \in Step1cWords :
           Call("step_1c", text,
                IF step_1c_raises(text) THEN Raises("IndexError")
                ELSE Returns(step_1c(text)))

CallStep2 ==
    /\ Idle
    /\ \E text \in Step2Words, region1 \in StepRegions :
           Call("step_2", [word |-> text, r1 |-> region1],
                Returns(step_2(text, region1)))

CallStep3 ==
    /\ Idle
    /\ \E text \in Step3Words, region1 \in StepRegions, region2 \in StepRegions :
           Call("step_3", [word |-> text, r1 |-> region1, r2 |-> region2],
                Returns(step_3(text, region1, region2)))

CallStep4 ==
    /\ Idle
    /\ \E text \in Step4Words, region2 \in StepRegions :
           Call("step_4", [word |-> text, r2 |-> region2],
                Returns(step_4(text, region2)))

CallStep5 ==
    /\ Idle
    /\ \E text \in Step5Words, region1 \in StepRegions, region2 \in StepRegions :
           Call("step_5", [word |-> text, r1 |-> region1, r2 |-> region2],
                IF step_5_raises(text, region2) THEN Raises("IndexError")
                ELSE Returns(step_5(text, region1, region2)))

CallCapitalizeConsonantYs ==
    /\ Idle
    /\ \E text \in ByteStrings \cup CapitalizeWords :
           Call("capitalize_consonant_ys", text,
                Returns(capitalize_consonant_ys(text)))

NextCalls ==
    \/ CallStemWords
    \/ CallStemmer
    \/ CallStem
    \/ CallGetR1
    \/ CallGetR2
    \/ CallStep1a
    \/ CallStep1b
    \/ CallStep1c
    \/ CallStep2
    \/ CallStep3
    \/ CallStep4
    \/ CallStep5
    \/ CallCapitalizeConsonantYs

ApiSpec == InitCalls /\ [][NextCalls]_vars

(***************************************************************************)
(* stemWord called on words of lowercase letters.                          *)
(***************************************************************************)
\* the letters a to z
Lowercase ==
    {"a", "b", "c", "d", "e", "f", "g", "h", "i", "j", "k", "l", "m",
     "n", "o", "p", "q", "r", "s", "t", "u", "v", "w", "x", "y", "z"}

\* the endings the steps look for
Endings ==
    {step_1b_suffixes[i] : i \in 1..Len(step_1b_suffixes)}
    \cup {step_2_triples[i][1] : i \in 1..Len(step_2_triples)}
    \cup {step_3_triples[i][1] : i \in 1..Len(step_3_triples)}
    \cup {delete_list[i] : i \in 1..Len(delete_list)}
    \cup {<<"e","e","d">>, <<"e","e","d","l","y">>, <<"s","s","e","s">>, <<"i","e","s">>, <<"i","e","d">>, <<"u","s">>, <<"s","s">>, <<"s">>,
          <<"s","i","o","n">>, <<"t","i","o","n">>, <<"y">>, <<"e">>, <<"l">>, <<"l","l">>}

\* words of lowercase letters: every word up to a length over a few
\* letters, a short stem before each ending, and the listed words
LowercaseShort == WordsUpTo({"a", "e", "y", "s", "d"}, MaxLen + 1) \ {<<>>}

LowercaseLong ==
    {s \o ending : s \in WordsUpTo({"a", "y", "b"}, MaxStem), ending \in Endings}
    \cup ListedWords \cup ShortSyllableWords

LowercaseInputs ==
    [unicode : BOOLEAN, text : LowercaseShort] \cup
    [unicode : {FALSE}, text : LowercaseLong]

\* stemWord is called on a word of lowercase letters
InitLowercase ==
    /\ input \in LowercaseInputs
    /\ was_unicode = FALSE
    /\ word = input.text
    /\ r1 = Unbound
    /\ r2 = Unbound
    /\ pc = "encode"
    /\ result = NoResult
    /\ done = <<>>
    /\ fn = "none"
    /\ arg = NoCall
    /\ ret = NoCall

LowercaseSpec == InitLowercase /\ [][Next]_vars


(***************************************************************************)
(* Properties.                                                             *)
(***************************************************************************)
Returned == pc = "returned"

\* the statements executed, as a set
Ran == {done[i] : i \in 1..Len(done)}

\* a text as the bytes it is made of
AsBytes(value) ==
    IF value.unicode THEN encode_utf8(value.text) ELSE value.text

\* the statements of a call that returns at the full-word exception lookup
LookupPath == <<"encode", "length", "strip", "lookup">>

\* C1: for every word w of the full-word exception table, stemWord(w) and
\* stemWord("'" + w) return exactly table[w], and the call has executed
\* nothing but the apostrophe strip and the lookup: no sentinel marking, no
\* region computation, no step.
C1_FullWordException ==
    \A w \in DOMAIN exceptional_forms :
        (Returned /\ input.text \in {w, <<"'">> \o w})
            => /\ result.text = exceptional_forms[w]
               /\ done = LookupPath

\* "'skies" has returned "sky" (steps 0 and 1a would have made it "ski")
C1_Witness ==
    /\ Returned
    /\ input.text = <<"'","s","k","i","e","s">>
    /\ result.text = <<"s","k","y">>

\* C2: whenever the word step 1a produced is one of the 8 post-step-1a
\* exception words the call returns exactly that word at once, so steps 1b
\* to 5 are not applied; and for every listed word w, stemWord(w) = w and
\* stemWord(w + "s") = w.
C2_Post1aExit ==
    /\ [][(pc = "post1a" /\ word \in exceptional_early_exit_post_1a)
            => (pc' = "returned" /\ result'.text = word /\ word' = word)]_vars
    /\ [](\A w \in {<<"i","n","n","i","n","g">>, <<"o","u","t","i","n","g">>, <<"c","a","n","n","i","n","g">>, <<"h","e","r","r","i","n","g">>,
                    <<"e","a","r","r","i","n","g">>, <<"p","r","o","c","e","e","d">>, <<"e","x","c","e","e","d">>, <<"s","u","c","c","e","e","d">>} :
            (Returned /\ input.text \in {w, w \o <<"s">>})
                => (result.text = w /\ "step1b" \notin Ran))

\* "herrings" has returned "herring" from the post-1a lookup
C2_Witness ==
    /\ Returned
    /\ input.text = <<"h","e","r","r","i","n","g","s">>
    /\ result.text = <<"h","e","r","r","i","n","g">>
    /\ done[Len(done)] = "post1a"

\* C3: for every input word of length 0, 1 or 2, stemWord returns the input
\* unchanged (the same text, whatever its representation) and has run no
\* part of the pipeline: nothing but the length test.
C3_ShortInputUnchanged ==
    (Returned /\ Len(input.text) <= 2)
        => /\ AsBytes(result) = AsBytes(input)
           /\ done = <<"encode", "length">>

\* C4 as claimed: for any input whatsoever the returned value never contains
\* the sentinel "Y", on every return path.
C4_NoSentinelAnyInput == Returned => "Y" \notin Chars(result.text)

\* C4 as amended: for any input longer than 2 bytes (after UTF-8 encoding)
\* the returned value never contains the sentinel "Y", on the full-word
\* exception return, the post-1a return and the normal return; the
\* length <= 2 return hands the input back as it is, with any "Y" in it.
C4_NoSentinelBeyondLengthTest ==
    /\ (Returned /\ Len(AsBytes(input)) > 2) => "Y" \notin Chars(result.text)
    /\ (Returned /\ Len(AsBytes(input)) <= 2) => result.text = AsBytes(input)

\* an input with a "Y" in it went through the whole pipeline
C4_Witness ==
    /\ Returned
    /\ "Y" \in Chars(input.text)
    /\ "unmark" \in Ran
    /\ "Y" \notin Chars(result.text)

\* C5: stemWord is total: no input makes any statement of the call raise.
C5_NeverRaises == pc # "raised"

StageOrder ==
    <<"strip", "lookup", "mark", "regions", "step0", "step1a", "post1a",
      "step1b", "step1c", "step2", "step3", "step4", "step5", "unmark">>

StageIndex(stage) ==
    IF \E i \in 1..Len(StageOrder) : StageOrder[i] = stage
    THEN CHOOSE i \in 1..Len(StageOrder) : StageOrder[i] = stage
    ELSE 0

\* every stage executed came after all the stages before it in the order
StagesInOrder ==
    \A i, j \in 1..Len(done) :
        (i < j /\ StageIndex(done[i]) > 0 /\ StageIndex(done[j]) > 0)
            => StageIndex(done[i]) < StageIndex(done[j])

\* C7: a call on a word longer than 2 characters passes through its stages
\* in the fixed order, each at most once and none after a later one, and
\* reaches its return after finitely many stages.
C7_OrderedStagesReachReturn ==
    (Len(input.text) > 2) => ([]StagesInOrder /\ <>Returned)

\* the possessive markers step 0 strips
PossessiveMarkers == {<<"'">>, <<"'","s">>, <<"'","s","'">>}

\* C8 as claimed: the full-word lookup comes after step 0, so a word that
\* equals a table entry once its trailing possessive marker is stripped is
\* mapped to that entry's value.
C8_LookupAfterStep0 ==
    \A w \in DOMAIN exceptional_forms : \A m \in PossessiveMarkers :
        (Returned /\ input.text = w \o m) => result.text = exceptional_forms[w]

\* C8 as amended: the full-word lookup comes before step 0 (right after the
\* leading apostrophe is stripped), so it is applied to the word with its
\* possessive marker still on: a word that equals a table entry only once
\* the marker is stripped is not returned by the lookup and runs through
\* steps 0 and 1a and on.
C8_LookupBeforeStep0 ==
    /\ pc = "lookup" => "step0" \notin Ran
    /\ "step0" \in Ran => "lookup" \in Ran
    /\ \A w \in DOMAIN exceptional_forms : \A m \in PossessiveMarkers :
          (pc \in {"returned", "raised"} /\ input.text = w \o m)
              => ("step0" \in Ran /\ "step1a" \in Ran)

\* "skies'" has gone through the pipeline and come out as "ski", not "sky"
C8_Witness ==
    /\ Returned
    /\ input.text = <<"s","k","i","e","s","'">>
    /\ "step0" \in Ran
    /\ result.text = <<"s","k","i">>

\* the reference stems of the specification and of testStem
ReferenceStems ==
    {<<<<"c","o","n","s","i","s","t","e","n","t","l","y">>, <<"c","o","n","s","i","s","t">>>>, <<<<"c","a","r","e","s","s","e","s">>, <<"c","a","r","e","s","s">>>>,
     <<<<"g","e","n","e","r","a","l","i","z","a","t","i","o","n">>, <<"g","e","n","e","r","a","l">>>>, <<<<"s","k","i","e","s">>, <<"s","k","y">>>>,
     <<<<"o","u","t","i","n","g">>, <<"o","u","t","i","n","g">>>>, <<<<"m","i","k","e">>, <<"m","i","k","e">>>>,
     <<<<"c","o","n","s","i","g","n">>, <<"c","o","n","s","i","g","n">>>>, <<<<"c","o","n","s","i","g","n","e","d">>, <<"c","o","n","s","i","g","n">>>>,
     <<<<"c","o","n","s","i","g","n","i","n","g">>, <<"c","o","n","s","i","g","n">>>>, <<<<"c","o","n","s","i","g","n","m","e","n","t">>, <<"c","o","n","s","i","g","n">>>>,
     <<<<"c","o","n","s","i","s","t">>, <<"c","o","n","s","i","s","t">>>>, <<<<"c","o","n","s","i","s","t","e","d">>, <<"c","o","n","s","i","s","t">>>>,
     <<<<"c","o","n","s","i","s","t","e","n","c","y">>, <<"c","o","n","s","i","s","t">>>>, <<<<"c","o","n","s","i","s","t","e","n","t">>, <<"c","o","n","s","i","s","t">>>>,
     <<<<"c","o","n","s","i","s","t","i","n","g">>, <<"c","o","n","s","i","s","t">>>>, <<<<"c","o","n","s","i","s","t","s">>, <<"c","o","n","s","i","s","t">>>>}

\* C9: stemWord yields the reference stems, "generalization" through the
\* "gener" override R1 = 5.
C9_ReferenceStems ==
    /\ \A pair \in ReferenceStems :
          (Returned /\ input.text = pair[1]) => result.text = pair[2]
    /\ (input.text = <<"g","e","n","e","r","a","l","i","z","a","t","i","o","n">> /\ "regions" \in Ran) => r1 = 5

\* "generalization" has returned "general"
C9_Witness ==
    /\ Returned
    /\ input.text = <<"g","e","n","e","r","a","l","i","z","a","t","i","o","n">>
    /\ r1 = 5
    /\ result.text = <<"g","e","n","e","r","a","l">>

\* the characters the algorithm works on: a-z, the apostrophe, the sentinel
WorkingSet ==
    {"a", "b", "c", "d", "e", "f", "g", "h", "i", "j", "k", "l", "m", "n",
     "o", "p", "q", "r", "s", "t", "u", "v", "w", "x", "y", "z", "'", "Y"}

Outside(c) == c \notin WorkingSet

\* C10: the characters outside the working set appear in the output
\* unchanged, as many times and in the same order as in the input.
C10_OutsideCharsKept ==
    Returned => SelectSeq(result.text, Outside) = SelectSeq(input.text, Outside)

\* C11: the result of stemWord has the text type of its argument, on every
\* return path: a unicode object in gives a unicode object out, a byte
\* string in gives a byte string out.
C11_SameTextType == Returned => result.unicode = input.unicode

\* C12: for every sequence of words stemWords returns a sequence of the
\* same length whose i-th element is stemWord of the i-th word alone,
\* whatever the other elements and its position.
C12_StemWordsElementwise ==
    fn = "stemWords"
        => /\ ret.raised = ""
           /\ Len(ret.value) = Len(arg)
           /\ \A i \in 1..Len(arg) : ret.value[i] = stemWords(<<arg[i]>>).value[1]

\* C13: constructing a Stemmer succeeds exactly when the algorithm is
\* "english", "eng" or "en"; any other identifier raises KeyError and
\* yields no instance, whatever the cache size.
C13_KnownAlgorithms ==
    fn = "Stemmer"
        => /\ ret.raised = "" <=> arg.algorithm \in {"english", "eng", "en"}
           /\ ret.raised # "" => (ret.raised = "KeyError" /\ ret.value = NoValue)

\* Stemmer("EN", 500) has raised KeyError
C13_Witness ==
    /\ fn = "Stemmer"
    /\ arg.algorithm = "EN"
    /\ arg.cache_size = <<500>>
    /\ ret.raised = "KeyError"

\* C14: stem(word) raises DeprecationWarning for every argument and returns
\* no stem.
C14_StemDeprecated ==
    fn = "stem" => (ret.raised = "DeprecationWarning" /\ ret.value = NoValue)

\* stem("consisting") has raised
C14_Witness ==
    /\ fn = "stem"
    /\ arg = <<"c","o","n","s","i","s","t","i","n","g">>
    /\ ret.raised = "DeprecationWarning"

\* the argument of the call as _stem has it when the regions are computed:
\* encoded, without its initial apostrophe, consonant ys marked
Marked(value) ==
    capitalize_consonant_ys(remove_initial_apostrophe(AsBytes(value)))

\* C15: R1 and R2 are computed once per call, from the sentinel-marked word
\* before step 0; steps 0, 1a, 1b, 1c, 2, 3, 4 and 5 leave the stored
\* values unchanged, and steps 1b to 5 test regions with those offsets,
\* also when the word has become shorter than them.
C15_RegionsComputedOnce ==
    [][LET region1 == get_r1(Marked(input))
           region2 == get_r2(Marked(input))
       IN  /\ pc = "regions"
                => /\ "regions" \notin Ran
                   /\ "step0" \notin Ran
                   /\ word = Marked(input)
                   /\ r1' = region1
                   /\ r2' = region2
           /\ pc # "regions" => (r1' = r1 /\ r2' = r2)
           /\ pc' # "raised"
                => /\ pc = "step1b" => word' = step_1b(word, region1)
                   /\ pc = "step2" => word' = step_2(word, region1)
                   /\ pc = "step3" => word' = step_3(word, region1, region2)
                   /\ pc = "step4" => word' = step_4(word, region2)
                   /\ pc = "step5" => word' = step_5(word, region1, region2)
      ]_vars

\* step 2 is about to run on a word that steps 1a to 1c left shorter than
\* the R1 computed before step 0
C15_Witness ==
    /\ pc = "step2"
    /\ r1 = get_r1(Marked(input))
    /\ Len(word) < r1
    /\ word # Marked(input)

\* the 1-based indexes of the vowels (a, e, i, o, u, y) of a text that are
\* immediately followed by a character that is none of these
VowelThenNonVowel(text) ==
    {i \in 1..(Len(text) - 1) :
        /\ text[i] \in {"a", "e", "i", "o", "u", "y"}
        /\ text[i + 1] \notin {"a", "e", "i", "o", "u", "y"}}

\* the prefix value of R1, 0 when the text has none of the three prefixes
PrefixR1(text) ==
    IF StartsWith(text, <<"g","e","n","e","r">>) \/ StartsWith(text, <<"a","r","s","e","n">>) THEN 5
    ELSE IF StartsWith(text, <<"c","o","m","m","u","n">>) THEN 6
    ELSE 0

\* the general scan: the offset after the first vowel-then-non-vowel pair,
\* the length of the text when it has none
GeneralScan(text) ==
    IF VowelThenNonVowel(text) = {} THEN Len(text)
    ELSE Min(VowelThenNonVowel(text)) + 1

\* C16 as stated: get_r1 returns 5 for words beginning with gener or arsen,
\* 6 for words beginning with commun, otherwise the offset just after the
\* first vowel that is immediately followed by a non-vowel, and the length
\* of the word when no vowel is followed by a non-vowel.
C16_R1AfterFirstVowel ==
    fn = "get_r1"
        => ret = Returns(IF PrefixR1(arg) # 0 THEN PrefixR1(arg)
                         ELSE IF VowelThenNonVowel(arg) = {} THEN Len(arg)
                         ELSE Min(VowelThenNonVowel(arg)))

\* C16: get_r1 returns 5 for words beginning with gener or arsen, 6 for
\* words beginning with commun, otherwise the offset just after the
\* non-vowel that immediately follows the first vowel so followed (Y and
\* every other character outside a, e, i, o, u, y are non-vowels), and the
\* length of the word when no vowel is followed by a non-vowel.
C16_R1AfterFirstVowelNonVowel ==
    fn = "get_r1"
        => ret = Returns(IF PrefixR1(arg) # 0 THEN PrefixR1(arg)
                         ELSE GeneralScan(arg))

\* get_r1('beautiful') has returned 5: the u at offset 3 is the first vowel
\* followed by a non-vowel, the t after it ends at offset 5
C16_Witness ==
    /\ fn = "get_r1"
    /\ arg = <<"b","e","a","u","t","i","f","u","l">>
    /\ ret = Returns(5)

\* C17: get_r2 returns R1 plus the general scan of the remainder word[R1:],
\* with no prefix value for a remainder beginning with gener, arsen or
\* commun, and the length of the word when the remainder has no vowel
\* followed by a non-vowel.
C17_R2ScanOfRemainder ==
    fn = "get_r2"
        => LET R1 == get_r1(arg)
               remainder == SubSeq(arg, R1 + 1, Len(arg))
           IN  /\ ret = Returns(R1 + GeneralScan(remainder))
               /\ VowelThenNonVowel(remainder) = {} => ret = Returns(Len(arg))

\* get_r2('abgeneral') has returned 5: R1 is 2, the remainder 'general'
\* is scanned, its prefix value 5 is not used
C17_Witness ==
    /\ fn = "get_r2"
    /\ arg = <<"a","b","g","e","n","e","r","a","l">>
    /\ ret = Returns(5)

\* the suffix of step 1b a text ends with, <<>> when it ends with none:
\* no text ends with two of them
Step1bSuffix(text) ==
    IF EndsWith(text, <<"e","e","d","l","y">>) THEN <<"e","e","d","l","y">>
    ELSE IF EndsWith(text, <<"e","e","d">>) THEN <<"e","e","d">>
    ELSE IF EndsWith(text, <<"i","n","g","l","y">>) THEN <<"i","n","g","l","y">>
    ELSE IF EndsWith(text, <<"e","d","l","y">>) THEN <<"e","d","l","y">>
    ELSE IF EndsWith(text, <<"i","n","g">>) THEN <<"i","n","g">>
    ELSE IF EndsWith(text, <<"e","d">>) THEN <<"e","d">>
    ELSE <<>>

\* the text before the suffix of step 1b
Step1bRemainder(text) == SubSeq(text, 1, Len(text) - Len(Step1bSuffix(text)))

\* a text ends in a short syllable: it is a vowel and a non-vowel, or it
\* ends in a non-vowel, a vowel and a non-vowel other than w, x and Y
EndsInShortSyllable(text) ==
    LET n == Len(text)
        vowels == {"a", "e", "i", "o", "u", "y"}
    IN  \/ n = 2 /\ text[1] \in vowels /\ text[2] \notin vowels
        \/ /\ n >= 3
           /\ text[n - 2] \notin vowels
           /\ text[n - 1] \in vowels
           /\ text[n] \notin vowels \cup {"w", "x", "Y"}

\* a short word: it ends in a short syllable and its R1 is its length
ShortWord(text) == EndsInShortSyllable(text) /\ get_r1(text) = Len(text)

\* C18: in step 1b a word ending in ed, edly, ing or ingly, and not in eed
\* or eedly, loses the suffix only if the remainder contains a vowel and is
\* otherwise unchanged; after removal one adjustment is made: a remainder in
\* at, bl or iz gets an e; else one in bb, dd, ff, gg, mm, nn, pp, rr or tt
\* loses its last letter; else a short word gets an e; else it is returned
\* as it is.
C18_Step1bRemoval ==
    (fn = "step_1b" /\ Step1bSuffix(arg.word) \in {<<"e","d">>, <<"e","d","l","y">>, <<"i","n","g">>, <<"i","n","g","l","y">>})
        => LET remainder == Step1bRemainder(arg.word)
               n == Len(remainder)
               contains_vowel ==
                   \E i \in 1..n : remainder[i] \in {"a", "e", "i", "o", "u", "y"}
               last2 == SubSeq(remainder, n - 1, n)
           IN  ret = Returns(
                   IF ~contains_vowel THEN arg.word
                   ELSE IF n >= 2 /\ last2 \in {<<"a","t">>, <<"b","l">>, <<"i","z">>}
                   THEN remainder \o <<"e">>
                   ELSE IF n >= 2 /\ last2 \in {<<"b","b">>, <<"d","d">>, <<"f","f">>, <<"g","g">>, <<"m","m">>,
                                                <<"n","n">>, <<"p","p">>, <<"r","r">>, <<"t","t">>}
                   THEN SubSeq(remainder, 1, n - 1)
                   ELSE IF ShortWord(remainder) THEN remainder \o <<"e">>
                   ELSE remainder)

\* C19: in step 1b a word ending in eed or eedly becomes the part before
\* the suffix plus ee exactly when the length of that part is at least R1,
\* and is otherwise returned unchanged: the ed and edly rule is not applied
\* to it, also when the R1 test fails.
C19_Step1bEed ==
    (fn = "step_1b" /\ Step1bSuffix(arg.word) \in {<<"e","e","d">>, <<"e","e","d","l","y">>})
        => LET preceding == Step1bRemainder(arg.word)
           IN  ret = Returns(IF Len(preceding) >= arg.r1
                             THEN preceding \o <<"e","e">>
                             ELSE arg.word)

\* step_1b('heed', 2) has returned 'heed': the R1 test fails and the ed
\* rule, which would leave 'he', is not applied
C19_Witness ==
    /\ fn = "step_1b"
    /\ arg = [word |-> <<"h","e","e","d">>, r1 |-> 2]
    /\ ret = Returns(<<"h","e","e","d">>)

\* C20: step_1a applies the first matching rule of sses, ied/ies, us/ss, s:
\* a word in sses loses its last two letters; in a word in ied or ies these
\* three letters become i when the word is longer than 4 characters and ie
\* otherwise; a word in us or ss is unchanged; any other word in s loses
\* the s exactly when the part before it contains a vowel followed by at
\* least one more character; every other word is unchanged.
C20_Step1aFirstRule ==
    fn = "step_1a"
        => LET n == Len(arg)
               before_s == SubSeq(arg, 1, n - 1)
               vowel_then_character ==
                   \E i \in 1..(n - 2) : before_s[i] \in {"a", "e", "i", "o", "u", "y"}
           IN  ret = Returns(
                   IF EndsWith(arg, <<"s","s","e","s">>) THEN SubSeq(arg, 1, n - 2)
                   ELSE IF EndsWith(arg, <<"i","e","d">>) \/ EndsWith(arg, <<"i","e","s">>)
                   THEN SubSeq(arg, 1, n - 3) \o (IF n > 4 THEN <<"i">> ELSE <<"i","e">>)
                   ELSE IF EndsWith(arg, <<"u","s">>) \/ EndsWith(arg, <<"s","s">>) THEN arg
                   ELSE IF EndsWith(arg, <<"s">>) /\ vowel_then_character THEN before_s
                   ELSE arg)

\* C21: for every word, of length 0 and 1 too, step_1c returns the word
\* with its last character replaced by i exactly when the word ends in y
\* or Y, its second-to-last character is a non-vowel and it is longer than
\* 2 characters; in every other case it returns the word unchanged.
C21_Step1cEveryLength ==
    fn = "step_1c"
        => LET n == Len(arg)
           IN  ret = Returns(
                   IF /\ n > 2
                      /\ arg[n] \in {"y", "Y"}
                      /\ arg[n - 1] \notin {"a", "e", "i", "o", "u", "y"}
                   THEN SubSeq(arg, 1, n - 1) \o <<"i">>
                   ELSE arg)

\* the entries of the table of step 2 whose suffix a text ends with
Step2Matching(text) ==
    {i \in 1..Len(step_2_triples) : EndsWith(text, step_2_triples[i][1])}

\* C22: in step 2 the first table entry, in table order, longest suffix
\* first, whose suffix the word ends with decides alone: the suffix is
\* replaced when the preceding length is at least R1 (and, for ogi, the
\* preceding part ends in l; for li, in one of c, d, e, g, h, k, m, n, r,
\* t); otherwise the word is returned unchanged and no later, shorter entry
\* is tried.
C22_Step2FirstEntryDecides ==
    fn = "step_2"
        => LET matching == Step2Matching(arg.word)
               first == Min(matching)
               suffix == step_2_triples[first][1]
               preceding == SubSeq(arg.word, 1, Len(arg.word) - Len(suffix))
               last == IF preceding = <<>> THEN "" ELSE preceding[Len(preceding)]
               allowed ==
                   /\ Len(preceding) >= arg.r1
                   /\ suffix = <<"o","g","i">> => last = "l"
                   /\ suffix = <<"l","i">>
                        => last \in {"c", "d", "e", "g", "h", "k", "m", "n", "r", "t"}
           IN  IF matching = {} THEN ret = Returns(arg.word)
               ELSE /\ \A i \in matching :
                           Len(step_2_triples[i][1]) <= Len(suffix)
                    /\ ret = Returns(IF allowed
                                     THEN preceding \o step_2_triples[first][2]
                                     ELSE arg.word)

\* step_2('aentli', 2) has returned 'aentli': entli is not in R1, and li,
\* which is and follows a t, has not been tried
C22_Witness ==
    /\ fn = "step_2"
    /\ arg = [word |-> <<"a","e","n","t","l","i">>, r1 |-> 2]
    /\ ret = Returns(<<"a","e","n","t","l","i">>)

\* the entries of the table of step 3 whose suffix a text ends with
Step3Matching(text) ==
    {i \in 1..Len(step_3_triples) : EndsWith(text, step_3_triples[i][1])}

\* C23: for every word and every r1, r2 >= 0, 0 included, step_3 takes the
\* first of its 9 table entries whose suffix the word ends with and
\* replaces the suffix by the entry's replacement whenever the preceding
\* length is at least r1 (for ative, also at least r2), also when that
\* leaves an empty word; otherwise it returns the word unchanged.
C23_Step3FirstEntry ==
    fn = "step_3"
        => LET matching == Step3Matching(arg.word)
               first == Min(matching)
               suffix == step_3_triples[first][1]
               preceding == SubSeq(arg.word, 1, Len(arg.word) - Len(suffix))
               allowed ==
                   /\ Len(preceding) >= arg.r1
                   /\ suffix = <<"a","t","i","v","e">> => Len(preceding) >= arg.r2
           IN  /\ Len(step_3_triples) = 9
               /\ ret = Returns(IF matching # {} /\ allowed
                                THEN preceding \o step_3_triples[first][2]
                                ELSE arg.word)

\* the 17 suffixes step 4 deletes
Step4Listed ==
    {<<"a","l">>, <<"a","n","c","e">>, <<"e","n","c","e">>, <<"e","r">>, <<"i","c">>, <<"a","b","l","e">>, <<"i","b","l","e">>, <<"a","n","t">>,
     <<"e","m","e","n","t">>, <<"m","e","n","t">>, <<"e","n","t">>, <<"i","s","m">>, <<"a","t","e">>, <<"i","t","i">>, <<"o","u","s">>, <<"i","v","e">>, <<"i","z","e">>}

\* C24: step_4 performs at most one deletion: it takes the longest of the
\* 17 listed suffixes the word ends with and deletes it exactly when the
\* preceding length is at least R2, returning the word unchanged otherwise
\* without trying a shorter listed suffix; only when no listed suffix
\* matches, a word ending in sion or tion loses its final ion exactly when
\* length - 3 >= R2.
C24_Step4LongestSuffix ==
    fn = "step_4"
        => LET n == Len(arg.word)
               matching == {s \in Step4Listed : EndsWith(arg.word, s)}
               longest == CHOOSE s \in matching :
                              \A t \in matching : Len(t) <= Len(s)
           IN  /\ Cardinality(Step4Listed) = 17
               /\ ret = Returns(
                      IF matching # {}
                      THEN IF n - Len(longest) >= arg.r2
                           THEN SubSeq(arg.word, 1, n - Len(longest))
                           ELSE arg.word
                      ELSE IF /\ EndsWith(arg.word, <<"s","i","o","n">>) \/ EndsWith(arg.word, <<"t","i","o","n">>)
                              /\ n - 3 >= arg.r2
                      THEN SubSeq(arg.word, 1, n - 3)
                      ELSE arg.word)

\* step_4('aement', 2) has returned 'aement': ement is not in R2, and
\* ment, which is, has not been tried
C24_Witness ==
    /\ fn = "step_4"
    /\ arg = [word |-> <<"a","e","m","e","n","t">>, r2 |-> 2]
    /\ ret = Returns(<<"a","e","m","e","n","t">>)

\* C25: step_5 removes at most one character: a word ending in ll loses
\* its final l exactly when length - 1 >= R2; a word ending in e loses
\* that e exactly when length - 1 >= R2, or length - 1 >= R1 and the word
\* without the e does not end in a short syllable; every other word, and
\* every word for which the condition fails, is returned unchanged.
C25_Step5OneCharacter ==
    fn = "step_5"
        => LET n == Len(arg.word)
               shorter == SubSeq(arg.word, 1, n - 1)
               removes ==
                   \/ EndsWith(arg.word, <<"l","l">>) /\ n - 1 >= arg.r2
                   \/ /\ EndsWith(arg.word, <<"e">>)
                      /\ \/ n - 1 >= arg.r2
                         \/ n - 1 >= arg.r1 /\ ~EndsInShortSyllable(shorter)
           IN  ret = Returns(IF removes THEN shorter ELSE arg.word)

\* a text with a leading y replaced by Y
InitialMarked(text) ==
    [i \in 1..Len(text) |-> IF i = 1 /\ text[i] = "y" THEN "Y" ELSE text[i]]

\* a replacement starts at position j of a text in the left-to-right,
\* non-overlapping pass: j holds a lowercase vowel, a y follows, and j is
\* not the y of a replacement that started at j - 1
RECURSIVE ReplacementStarts(_, _)
ReplacementStarts(text, j) ==
    /\ j >= 1
    /\ j < Len(text)
    /\ text[j] \in {"a", "e", "i", "o", "u", "y"}
    /\ text[j + 1] = "y"
    /\ ~ReplacementStarts(text, j - 1)

\* C26: capitalize_consonant_ys changes nothing but y into Y and keeps the
\* length: a word-initial y becomes Y, then in one left-to-right,
\* non-overlapping pass each y immediately after a lowercase vowel (a, e,
\* i, o, u, y) becomes Y; a y used as the vowel of a replacement, or itself
\* replaced, is not considered again (boy gives boY, syzygy and fly are
\* unchanged).
C26_CapitalizePass ==
    fn = "capitalize_consonant_ys"
        => LET first == InitialMarked(arg)
               out == ret.value
           IN  /\ ret.raised = ""
               /\ Len(out) = Len(arg)
               /\ \A i \in 1..Len(arg) :
                      /\ out[i] # arg[i] => (arg[i] = "y" /\ out[i] = "Y")
                      /\ out[i] = IF ReplacementStarts(first, i - 1)
                                  THEN "Y" ELSE first[i]
               /\ arg = <<"b","o","y">> => out = <<"b","o","Y">>
               /\ arg = <<"s","y","z","y","g","y">> => out = <<"s","y","z","y","g","y">>
               /\ arg = <<"f","l","y">> => out = <<"f","l","y">>

\* capitalize_consonant_ys('sayyid') has returned 'saYyid': the second y
\* follows a y that was replaced and stays
C26_Witness ==
    /\ fn = "capitalize_consonant_ys"
    /\ arg = <<"s","a","y","y","i","d">>
    /\ ret = Returns(<<"s","a","Y","y","i","d">>)

\* step 1b is about to test whether the remainder of the word is short
AtShortWordTest ==
    /\ pc = "step1b"
    /\ Step1bSuffix(word) \in {<<"e","d">>, <<"e","d","l","y">>, <<"i","n","g">>, <<"i","n","g","l","y">>}

\* C27: within stemWord the short-word test of step 1b, which computes R1
\* again from the remainder left of ed, edly, ing or ingly, gives the same
\* answer as the test "the remainder ends in a short syllable and the R1
\* stored before step 0 is the length of the remainder", also for words
\* with the gener, arsen or commun prefix and words shortened by step 0 or
\* step 1a.
C27_ShortWordTestAgrees ==
    AtShortWordTest
        => LET remainder == Step1bRemainder(word)
           IN  is_short_word(remainder)
                   <=> (ends_with_short_syllable(remainder) /\ r1 = Len(remainder))

\* the call on "arsening's" is at step 1b with the word 'arsening',
\* shortened by step 0: R1 is 5 by the prefix arsen, and the remainder
\* 'arsen' is a short word
C27_Witness ==
    /\ AtShortWordTest
    /\ input.text = <<"a","r","s","e","n","i","n","g","'","s">>
    /\ word = <<"a","r","s","e","n","i","n","g">>
    /\ r1 = 5
    /\ is_short_word(Step1bRemainder(word))

\* C28: for every input of length >= 1 made only of the letters a to z,
\* stemWord returns normally and the stem is not empty: R1 and R2 are at
\* least 2, no step reduces the word to the empty string, and step 1c is
\* not reached with a one-character word ending in y.
C28_LowercaseStemNotEmpty ==
    (/\ Len(input.text) >= 1
     /\ \A i \in 1..Len(input.text) : input.text[i] \in Lowercase)
        => /\ pc # "raised"
           /\ word # <<>>
           /\ Returned => (Len(result.text) >= 1 /\ result.text # None)
           /\ "regions" \in Ran => (r1 >= 2 /\ r2 >= 2)
           /\ pc = "step1c" => ~(Len(word) = 1 /\ word[1] \in {"y", "Y"})

\* the call on 'yed' has returned 'yed': the marked Y kept step 1b from
\* leaving the one-character word y to step 1c
C28_Witness ==
    /\ Returned
    /\ input.text = <<"y","e","d">>
    /\ "step1c" \in Ran
    /\ r1 = 3
    /\ result.text = <<"y","e","d">>

====
